---- MODULE Spec2Model ----
(***************************************************************************)
(* Model of the helix-vte terminal registry (helix-vte/src/lib.rs):        *)
(* VteRegistry owns a table of PTY sessions and a SelectAll merge of one   *)
(* sub-stream per session.  Each sub-stream is stream::select(bridge,      *)
(* lifecycle): the bridge is a ReceiverStream fed by a blocking worker     *)
(* thread, the lifecycle is an async block racing try_wait against a       *)
(* tokio Notify.                                                           *)
(*                                                                         *)
(* A "slot" is the ordinal of a successful spawn_pty call (1, 2, ...): it  *)
(* names the PTY, the child process, the worker thread and the sub-stream  *)
(* created by that call.  The TerminalId a sub-stream tags its events with *)
(* is tid[slot]; the table maps ids to slots.                              *)
(***************************************************************************)
EXTENDS Integers, Sequences, FiniteSets, TLC

\* ---------------------------------------------------------------- bounds
\* Spec: sessions spawned, bytes the children write
MaxSpawn == 1
MaxBytes == 1
MaxChunk == 1
\* OpsSpec: write_all calls that succeed
MaxWrites == 1
\* BridgeSpec: bytes the child writes
BridgeBytes == 9
\* SpawnSpec: spawn_pty calls that fail after the child was started
MaxOrphans == 1
\* IdSpec, TagSpec: sessions spawned
MaxSessions == 2
\* ViewSpec: shells spawned, bytes the children write in all, Wakeups
\* waiting in events
MaxShells == 1
ViewBytes == 1
MaxEvents == 1
\* TagSpec: bytes the children write in all
TagBytes == 2

\* ------------------------------------------------------ program constants
ChannelCap == 8
DefaultRows == 24
DefaultCols == 80

\* A u32 (TerminalId, exit_code()) is held as its 32-bit pattern read as a
\* two's-complement number, the widest integer TLC has: 0 .. 2^31-1
\* stand for themselves, 2^31 .. 2^32-1 for themselves minus 2^32.
I32Max == 2147483647
I32Min == -I32Max - 1
\* fetch_add(1) on an AtomicU32: wraps from 2^32-1 (pattern -1) to 0
WrappingInc(x) == IF x = I32Max THEN I32Min ELSE x + 1

\* exit codes a child can report through ExitStatus::exit_code(): 0 and
\* 3221225477 (0xC0000005), whose pattern is -1073741819
ExitCodes == {0, -1073741819}
\* PtySpawnConfig.size None: 24 rows, 80 columns
DefaultSize == <<DefaultRows, DefaultCols>>
\* sizes a caller passes to spawn_pty and resize
Sizes == {DefaultSize, <<10, 20>>}
\* first value of the process-wide id counter
SeqStarts == {0}
\* values of the counter when a registry is created later in the life of the
\* process: the static is shared by every registry, and 2^32-1 (pattern -1)
\* is its last value before fetch_add wraps
IdStarts == {0, I32Max, -1}
\* a < b as u32, on the two's-complement patterns
U32Lt(a, b) == IF (a >= 0) = (b >= 0) THEN a < b ELSE a >= 0

VARIABLES
    TERMINAL_ID_SEQ,  \* static AtomicU32
    tid,              \* slot -> term_id captured by the sub-stream
    terminals,        \* VteRegistry.terminals: id -> slot of its TermEntry
    ptySize,          \* slot -> size of the PTY (TermEntry.master)
    written,          \* slot -> number of write_all calls that reached the writer
    streams,          \* slots whose sub-stream is in VteRegistry.incoming
    readyQueue,       \* FuturesUnordered ready-to-run queue (woken sub-streams)
    sub,              \* slot -> state of Select + lifecycle future
    chan,             \* slot -> contents of the mpsc channel (capacity 8)
    worker,           \* slot -> position of the spawn_blocking thread
    readLog,          \* slot -> bytes the worker has read from the PTY master
    proc,             \* slot -> child process
    got,              \* slot -> events this sub-stream delivered on the merge
    ret,              \* what the latest recorded registry call answered
    crashed,          \* a panic unwound out of a poll
    orphans,          \* children a failed spawn_pty started and let go of
    models,           \* TerminalView.models: id -> TerminalModel
    active_term,      \* TerminalView.active_term: <<>> (None) or <<id>>
    visible,          \* TerminalView.visible
    events            \* TerminalView.events: the unbounded listener channel

vars == <<TERMINAL_ID_SEQ, tid, terminals, ptySize, written, streams,
          readyQueue, sub, chan, worker, readLog, proc, got, ret, crashed,
          orphans, models, active_term, visible, events>>

\* the state of TerminalView outside its registry
viewVars == <<models, active_term, visible, events>>

Slots == 1..Len(tid)

Range(q) == {q[i] : i \in 1..Len(q)}

RECURSIVE SumLen(_)
SumLen(f) == IF f = <<>> THEN 0 ELSE Len(Head(f)) + SumLen(Tail(f))

RECURSIVE SumSeq(_)
SumSeq(f) == IF f = <<>> THEN 0 ELSE Head(f) + SumSeq(Tail(f))

\* ---------------------------------------------------------------- events
Ev(id, kind, data, msg, code) ==
    [id |-> id, kind |-> kind, data |-> data, msg |-> msg, code |-> code]
Data(id, bytes) == Ev(id, "Data", bytes, "", 0)
Error(id, msg) == Ev(id, "Error", <<>>, msg, 0)
Terminated(id, code) == Ev(id, "Terminated", <<>>, "", code)
\* poll results that carry no item
Pending == Ev(0, "Pending", <<>>, "", 0)
None == Ev(0, "None", <<>>, "", 0)
Panic == Ev(0, "Panic", <<>>, "", 0)

IsItem(e) == e.kind \in {"Data", "Error", "Terminated"}

Ret(op, id, val) == [op |-> op, id |-> id, val |-> val]

InitAt(starts) ==
    /\ TERMINAL_ID_SEQ \in starts
    /\ tid = <<>>
    /\ terminals = <<>>
    /\ ptySize = <<>>
    /\ written = <<>>
    /\ streams = {}
    /\ readyQueue = <<>>
    /\ sub = <<>>
    /\ chan = <<>>
    /\ worker = <<>>
    /\ readLog = <<>>
    /\ proc = <<>>
    /\ got = <<>>
    /\ ret = Ret("new", 0, "Ok")
    /\ crashed = FALSE
    /\ orphans = 0
    /\ models = <<>>
    /\ active_term = <<>>
    /\ visible = FALSE
    /\ events = <<>>

Init == InitAt(SeqStarts)

\* --------------------------------------------------------- the poll state
\* The part of the state a poll of VteRegistry.incoming reads and changes.
PollState ==
    [sub |-> sub, chan |-> chan, proc |-> proc, got |-> got,
     streams |-> streams, queue |-> readyQueue]

Out(P, e) == [st |-> P, out |-> e]

\* u32 -> i32 conversion of the exit code: es.exit_code().try_into()
TryIntoI32(c) ==
    IF c >= 0 THEN [ok |-> TRUE, v |-> c] ELSE [ok |-> FALSE, v |-> 0]

\* The closure given to poll_fn (lib.rs 147-155): one non-blocking try_wait.
\* It registers no waker when it answers Pending.  try_wait may fail at any
\* call; the status of an exited child is any of ExitCodes.
PollFn(P, s) ==
    LET id == tid[s]
    IN  {Out(P, Error(id, "wait"))}
        \cup
        (IF P.proc[s] = "exited"
            THEN {Out(P, IF TryIntoI32(c).ok
                         THEN Terminated(id, TryIntoI32(c).v) ELSE Panic) :
                  c \in ExitCodes}
            ELSE {Out(P, Pending)})

\* process.kill(): fails, or signals the child, which has exited when kill
\* returns or exits later.
Kill(P, s) ==
    {[ok |-> FALSE, st |-> P]}
    \cup
    {[ok |-> TRUE, st |-> [P EXCEPT !.proc[s] = q]] :
        q \in IF P.proc[s] = "exited" THEN {"exited"} ELSE {"dying", "exited"}}

\* break (lib.rs 156, 162): the block ends with its event and Once drops the
\* future, and with it the Notified.  A pending or panicking poll ends nothing.
Break(r, s) ==
    IF r.out.kind \in {"Panic", "Pending"} THEN r
    ELSE Out([r.st EXCEPT !.sub[s].life = "done",
                          !.sub[s].notified = FALSE], r.out)

\* One poll of the async block (lib.rs 144-165).  select! polls its two
\* branches in a random order and takes the first that is ready; a fresh
\* Notified is created on every pass of the loop, and notify_waiters reaches
\* only a Notified that already exists.
LifecyclePoll(P, s) ==
    LET st == P.sub[s]
        id == tid[s]
        notifiedReady == st.life = "waiting" /\ st.notified
        wait(Q) == [Q EXCEPT !.sub[s].life = "waiting", !.sub[s].notified = FALSE]
        first == PollFn(P, s)
        \* the try_wait branch wins
        viaWait == {r \in first : r.out.kind # "Pending"}
        \* neither branch is ready
        parked == IF notifiedReady THEN {}
                  ELSE {Out(IF st.life = "unstarted" THEN wait(r.st) ELSE r.st,
                            Pending) :
                        r \in {x \in first : x.out.kind = "Pending"}}
        \* the notified branch wins: kill, then the next pass of the loop
        viaNotify ==
            IF ~notifiedReady THEN {}
            ELSE UNION {
                    IF ~k.ok THEN {Out(k.st, Error(id, "kill"))}
                    ELSE {IF r.out.kind = "Pending" THEN Out(wait(r.st), Pending)
                          ELSE r : r \in PollFn(k.st, s)}
                    : k \in Kill(P, s)}
    IN  {Break(r, s) : r \in viaWait \cup parked \cup viaNotify}

\* A Once that polls its future again after it has completed.
OncePollAgain(P, s) == LifecyclePoll(P, s)

\* futures Once (into_stream): the future's output, then the end.
OncePoll(P, s) ==
    IF P.sub[s].life = "done" THEN {Out(P, None)} ELSE LifecyclePoll(P, s)

\* A map closure that tags with the id issued last instead of the term_id it
\* captured.
ReaderPollLatestId(P, s) ==
    LET c == P.chan[s]
        id == tid[Len(tid)]
    IN  IF c # <<>>
        THEN {Out([P EXCEPT !.chan[s] = Tail(c)],
                  IF Head(c).ok THEN Data(id, Head(c).data)
                  ELSE Error(id, "read"))}
        ELSE IF worker[s].pc = "done" THEN {Out(P, None)}
        ELSE {Out(P, Pending)}

\* ReceiverStream poll and the map closure (lib.rs 140-143).
ReaderPoll(P, s) ==
    LET c == P.chan[s]
        id == tid[s]
    IN  IF c # <<>>
        THEN {Out([P EXCEPT !.chan[s] = Tail(c)],
                  IF Head(c).ok THEN Data(id, Head(c).data)
                  ELSE Error(id, "read"))}
        ELSE IF worker[s].pc = "done" THEN {Out(P, None)}
        ELSE {Out(P, Pending)}

PollSide(P, s, side) ==
    IF side = "Left" THEN ReaderPoll(P, s) ELSE OncePoll(P, s)

OtherSide(side) == IF side = "Left" THEN "Right" ELSE "Left"

FinishSide(P, s, side) ==
    IF side = "Left" THEN [P EXCEPT !.sub[s].leftDone = TRUE]
    ELSE [P EXCEPT !.sub[s].rightDone = TRUE]

\* futures stream::select, poll_inner: poll one side, then the other.
PollInner(P, s, side) ==
    UNION {
        IF IsItem(r.out) \/ r.out.kind = "Panic" THEN {r}
        ELSE LET firstDone == r.out.kind = "None"
                 P1 == IF firstDone THEN FinishSide(r.st, s, side) ELSE r.st
             IN  {IF q.out.kind = "None"
                     THEN Out(FinishSide(q.st, s, OtherSide(side)),
                              IF firstDone THEN None ELSE Pending)
                     ELSE q
                  : q \in PollSide(P1, s, OtherSide(side))}
        : r \in PollSide(P, s, side)}

\* A select that ends as soon as the lifecycle stream has ended.
SelectPollEndsWithLifecycle(P, s) ==
    LET st == P.sub[s]
    IN  IF st.rightDone THEN {Out(FinishSide(P, s, "Left"), None)}
        ELSE IF st.leftDone
        THEN {IF r.out.kind = "None" THEN Out(FinishSide(r.st, s, "Right"), None)
              ELSE r : r \in OncePoll(P, s)}
        ELSE PollInner(P, s, "Left") \cup PollInner(P, s, "Right")

\* futures stream::select, poll_next.  Which side is polled first alternates
\* in a way that depends on the futures version; either side may go first.
SelectPoll(P, s) ==
    LET st == P.sub[s]
    IN  IF st.leftDone /\ st.rightDone THEN {Out(P, None)}
        ELSE IF st.leftDone
        THEN {IF r.out.kind = "None" THEN Out(FinishSide(r.st, s, "Right"), None)
              ELSE r : r \in OncePoll(P, s)}
        ELSE IF st.rightDone
        THEN {IF r.out.kind = "None" THEN Out(FinishSide(r.st, s, "Left"), None)
              ELSE r : r \in ReaderPoll(P, s)}
        ELSE PollInner(P, s, "Left") \cup PollInner(P, s, "Right")

\* SelectAll over FuturesUnordered: sub-streams are polled in wake order and
\* only if woken; one that yields an item is pushed back (and so queued
\* again), one that ends is dropped; with no sub-stream left the merge
\* answers None.
RECURSIVE SelectAllPoll(_)
SelectAllPoll(P) ==
    IF P.queue = <<>>
    THEN {Out(P, IF P.streams = {} THEN None ELSE Pending)}
    ELSE LET s == Head(P.queue)
             P0 == [P EXCEPT !.queue = Tail(@)]
         IN  UNION {
                IF r.out.kind = "Pending" THEN SelectAllPoll(r.st)
                ELSE IF r.out.kind = "None"
                THEN SelectAllPoll([r.st EXCEPT !.streams = @ \ {s}])
                ELSE IF r.out.kind = "Panic" THEN {r}
                ELSE {Out([r.st EXCEPT !.queue = Append(@, s),
                                       !.got[s] = Append(@, r.out)],
                          r.out)}
                : r \in SelectPoll(P0, s)}

\* A waker fires for sub-stream s: its task joins the ready queue unless it
\* is already there.  (A sub-stream outside the queue answered Pending on
\* its last poll, so every side still running holds its current waker.)
Wake(q, s) == IF s \in streams /\ s \notin Range(q) THEN Append(q, s) ELSE q


\* ------------------------------------------------------ registry operations
\* spawn_pty (lib.rs 92-179), every step succeeding: the worker thread is
\* started, the id is taken from the counter, the sub-stream is pushed into
\* the merge and the entry inserted into the table.
SpawnPty(size) ==
    /\ ~crashed
    /\ LET term_id == TERMINAL_ID_SEQ
           s == Len(tid) + 1
       IN  /\ TERMINAL_ID_SEQ' = WrappingInc(TERMINAL_ID_SEQ)
           /\ tid' = Append(tid, term_id)
           /\ terminals' = (term_id :> s) @@ terminals
           /\ ptySize' = Append(ptySize, size)
           /\ written' = Append(written, 0)
           /\ streams' = streams \cup {s}
           /\ readyQueue' = Append(readyQueue, s)
           /\ sub' = Append(sub, [life |-> "unstarted", notified |-> FALSE,
                                  leftDone |-> FALSE, rightDone |-> FALSE])
           /\ chan' = Append(chan, <<>>)
           /\ worker' = Append(worker, [pc |-> "read", held |-> <<>>])
           /\ readLog' = Append(readLog, <<>>)
           /\ proc' = Append(proc, "running")
           /\ got' = Append(got, <<>>)
           /\ ret' = Ret("spawn_pty", term_id, "Ok")
    /\ UNCHANGED <<crashed, orphans>>

\* the fallible steps of spawn_pty, in order (lib.rs 97, 127, 131)
SpawnSteps == {"openpty", "spawn_command", "try_clone_reader", "take_writer"}

\* spawn_pty returning early through ? at a failing step (lib.rs 97-131).
\* Nothing of the registry has been touched yet: the worker is started at
\* line 133 and the id taken at line 135.  A failure after spawn_command
\* drops the child's handle on the way out, without kill or wait.
SpawnPtyFails(step) ==
    /\ ~crashed
    /\ step \in SpawnSteps
    /\ orphans' = IF step \in {"try_clone_reader", "take_writer"}
                  THEN orphans + 1 ELSE orphans
    /\ ret' = Ret("spawn_pty", 0, "PtyError")
    /\ UNCHANGED <<TERMINAL_ID_SEQ, tid, terminals, ptySize, written, streams,
                   readyQueue, sub, chan, worker, readLog, proc, got, crashed>>

\* A terminate that drops the entry as soon as it has signalled.
TerminateAndForget(id, res) ==
    /\ ~crashed
    /\ IF id \notin DOMAIN terminals
       THEN /\ res = "TerminalNotFound"
            /\ UNCHANGED <<sub, readyQueue, terminals>>
       ELSE LET s == terminals[id]
            IN  /\ res = "Ok"
                /\ terminals' = [i \in DOMAIN terminals \ {id} |-> terminals[i]]
                /\ IF sub[s].life = "waiting" /\ ~sub[s].notified
                   THEN /\ sub' = [sub EXCEPT ![s].notified = TRUE]
                        /\ readyQueue' = Wake(readyQueue, s)
                   ELSE UNCHANGED <<sub, readyQueue>>
    /\ UNCHANGED <<TERMINAL_ID_SEQ, tid, ptySize, written, streams,
                   chan, worker, readLog, proc, got, crashed, orphans>>

\* A terminate that finds no entry once the session has been notified.
TerminateOnce(id, res) ==
    /\ ~crashed
    /\ IF id \notin DOMAIN terminals \/ sub[terminals[id]].notified
       THEN /\ res = "TerminalNotFound"
            /\ UNCHANGED <<sub, readyQueue>>
       ELSE LET s == terminals[id]
            IN  /\ res = "Ok"
                /\ IF sub[s].life = "waiting"
                   THEN /\ sub' = [sub EXCEPT ![s].notified = TRUE]
                        /\ readyQueue' = Wake(readyQueue, s)
                   ELSE UNCHANGED <<sub, readyQueue>>
    /\ UNCHANGED <<TERMINAL_ID_SEQ, tid, terminals, ptySize, written, streams,
                   chan, worker, readLog, proc, got, crashed, orphans>>

\* terminate (lib.rs 181-190), answering res: notify_waiters on the entry's
\* Notify.  It reaches the Notified of a lifecycle future that is waiting in
\* select!; a future not yet polled has created none, a finished one has
\* dropped it.
Terminate(id, res) ==
    /\ ~crashed
    /\ IF id \notin DOMAIN terminals
       THEN /\ res = "TerminalNotFound"
            /\ UNCHANGED <<sub, readyQueue>>
       ELSE LET s == terminals[id]
            IN  /\ res = "Ok"
                /\ IF sub[s].life = "waiting" /\ ~sub[s].notified
                   THEN /\ sub' = [sub EXCEPT ![s].notified = TRUE]
                        /\ readyQueue' = Wake(readyQueue, s)
                   ELSE UNCHANGED <<sub, readyQueue>>
    /\ UNCHANGED <<TERMINAL_ID_SEQ, tid, terminals, ptySize, written, streams,
                   chan, worker, readLog, proc, got, crashed, orphans>>

\* A write that swallows the failed lookup.
WriteLenient(id, ok, res) ==
    /\ ~crashed
    /\ IF id \notin DOMAIN terminals
       THEN /\ res = "Ok"
            /\ UNCHANGED written
       ELSE LET s == terminals[id]
            IN  IF ok
                THEN /\ res = "Ok"
                     /\ written' = [written EXCEPT ![s] = @ + 1]
                ELSE /\ res = "IoError"
                     /\ UNCHANGED written
    /\ UNCHANGED <<TERMINAL_ID_SEQ, tid, terminals, ptySize, streams,
                   readyQueue, sub, chan, worker, readLog, proc, got, crashed, orphans>>

\* write (lib.rs 192-200), answering res: write_all on the entry's writer,
\* which succeeds (ok) or fails.
Write(id, ok, res) ==
    /\ ~crashed
    /\ IF id \notin DOMAIN terminals
       THEN /\ res = "TerminalNotFound"
            /\ UNCHANGED written
       ELSE LET s == terminals[id]
            IN  IF ok
                THEN /\ res = "Ok"
                     /\ written' = [written EXCEPT ![s] = @ + 1]
                ELSE /\ res = "IoError"
                     /\ UNCHANGED written
    /\ UNCHANGED <<TERMINAL_ID_SEQ, tid, terminals, ptySize, streams,
                   readyQueue, sub, chan, worker, readLog, proc, got, crashed, orphans>>

\* resize (lib.rs 202-216), answering res: master.resize, which succeeds
\* (ok) or fails.
Resize(id, new_size, ok, res) ==
    /\ ~crashed
    /\ IF id \notin DOMAIN terminals
       THEN /\ res = "TerminalNotFound"
            /\ UNCHANGED ptySize
       ELSE LET s == terminals[id]
            IN  IF ok
                THEN /\ res = "Ok"
                     /\ ptySize' = [ptySize EXCEPT ![s] = new_size]
                ELSE /\ res = "PtyError"
                     /\ UNCHANGED ptySize
    /\ UNCHANGED <<TERMINAL_ID_SEQ, tid, terminals, written, streams,
                   readyQueue, sub, chan, worker, readLog, proc, got, crashed, orphans>>

\* One poll of the merged stream, registry.incoming.next() (terminal.rs 429).
PollIncoming ==
    /\ ~crashed
    /\ \E r \in SelectAllPoll(PollState) :
        /\ sub' = r.st.sub
        /\ chan' = r.st.chan
        /\ proc' = r.st.proc
        /\ got' = r.st.got
        /\ streams' = r.st.streams
        /\ readyQueue' = r.st.queue
        /\ crashed' = (r.out.kind = "Panic")
        /\ ret' = Ret("poll", r.out.id, r.out.kind)
    /\ UNCHANGED <<TERMINAL_ID_SEQ, tid, terminals, ptySize, written, worker,
                   readLog, orphans>>
    /\ UNCHANGED viewVars

\* The registry is dropped (struct VteRegistry, lib.rs 73-76; no Drop impl):
\* the table goes, and the merge with every sub-stream in it.  Dropping a
\* sub-stream drops the receiver of its bridge, which closes the channel and
\* discards what it held, and the lifecycle future with its child handle,
\* which neither kills nor waits.  The worker threads are detached and go on.
RegistryDropped == \E s \in Slots : sub[s].life = "dropped"

DropRegistry ==
    /\ ~crashed
    /\ streams # {}
    /\ streams' = {}
    /\ readyQueue' = <<>>
    /\ terminals' = <<>>
    /\ chan' = [s \in DOMAIN chan |-> IF s \in streams THEN <<>> ELSE chan[s]]
    /\ sub' = [s \in DOMAIN sub |->
                IF s \in streams
                THEN [sub[s] EXCEPT !.life = "dropped", !.notified = FALSE]
                ELSE sub[s]]
    /\ UNCHANGED <<TERMINAL_ID_SEQ, tid, ptySize, written, worker, readLog,
                   proc, got, crashed, orphans>>

\* ------------------------------------------------------------ TerminalView
\* TerminalState (terminal.rs 79-84)
Initializing == [kind |-> "Initializing", msg |-> "", code |-> 0]
Normal == [kind |-> "Normal", msg |-> "", code |-> 0]
Failed(msg) == [kind |-> "Failed", msg |-> msg, code |-> 0]
TerminatedState(code) == [kind |-> "Terminated", msg |-> "", code |-> code]

\* a TerminalModel: its state, and what advance has fed to its parser
NewModel == [state |-> Initializing, fed |-> <<>>]

\* HashMap::remove
Remove(f, k) == [x \in DOMAIN f \ {k} |-> f[x]]

\* spawn_shell (terminal.rs 296-312): spawn_pty with the default
\* configuration; on Ok the new session becomes the active one and gets a
\* model, on Err nothing is done.
\* step names the step of spawn_pty that fails, "none" when it succeeds.
SpawnShell(size, step) ==
    IF step = "none"
    THEN /\ SpawnPty(DefaultSize)
         /\ active_term' = <<TERMINAL_ID_SEQ>>
         /\ models' = (TERMINAL_ID_SEQ :> NewModel) @@ models
         /\ UNCHANGED <<visible, events>>
    ELSE /\ SpawnPtyFails(step)
         /\ UNCHANGED viewVars

\* toggle_terminal (terminal.rs 314-323): spawns a shell when no session is
\* active; then, with a session active, flips visible and sends a Wakeup.
ToggleTerminal(step) ==
    IF active_term = <<>>
    THEN IF step = "none"
         THEN /\ SpawnPty(DefaultSize)
              /\ active_term' = <<TERMINAL_ID_SEQ>>
              /\ models' = (TERMINAL_ID_SEQ :> NewModel) @@ models
              /\ visible' = ~visible
              /\ events' = Append(events, <<TERMINAL_ID_SEQ, "Wakeup">>)
         ELSE /\ SpawnPtyFails(step)
              /\ UNCHANGED viewVars
    ELSE /\ ~crashed
         /\ visible' = ~visible
         /\ events' = Append(events, <<active_term[1], "Wakeup">>)
         /\ ret' = Ret("toggle_terminal", active_term[1], "Ok")
         /\ UNCHANGED <<TERMINAL_ID_SEQ, tid, terminals, ptySize, written, streams,
                        readyQueue, sub, chan, worker, readLog, proc, got,
                        crashed, orphans, models, active_term>>

\* close_term (terminal.rs 359-370): removes the model of id.  For a model
\* that is neither Failed nor Terminated it calls registry.terminate(id) and
\* discards the future unpolled (line 365), so that the body of terminate
\* does not run.  active_term is not written.
CloseTerm(id) ==
    /\ ~crashed
    /\ models' = IF id \in DOMAIN models THEN Remove(models, id) ELSE models
    /\ ret' = Ret("close_term", id, IF id \in DOMAIN models THEN "Ok" ELSE "")
    /\ UNCHANGED <<TERMINAL_ID_SEQ, tid, terminals, ptySize, written, streams,
                   readyQueue, sub, chan, worker, readLog, proc, got,
                   crashed, orphans, active_term, visible, events>>

\* close_active_terminal (terminal.rs 325-330)
CloseActiveTerminal ==
    IF active_term # <<>>
    THEN CloseTerm(active_term[1])
    ELSE /\ ~crashed
         /\ ret' = Ret("close_term", 0, "")
         /\ UNCHANGED <<TERMINAL_ID_SEQ, tid, terminals, ptySize, written, streams,
                        readyQueue, sub, chan, worker, readLog, proc, got,
                        crashed, orphans>>
         /\ UNCHANGED viewVars

\* A fold of Error that takes the failed model out of the table.
FoldDropsFailed(e) ==
    LET same == [models |-> models, active_term |-> active_term,
                 visible |-> visible, val |-> "None"]
    IN  IF e.id \notin DOMAIN models THEN same
        ELSE IF e.kind = "Data"
        THEN [same EXCEPT !.models[e.id].fed = @ \o e.data, !.val = "Update"]
        ELSE IF e.kind = "Error"
        THEN [same EXCEPT !.models = Remove(models, e.id), !.val = "Update"]
        ELSE [same EXCEPT !.models[e.id].state = TerminatedState(e.code),
                          !.active_term = <<>>,
                          !.visible = FALSE,
                          !.val = "Update"]

\* A fold of Terminated that leaves the selection alone.
FoldKeepsSelection(e) ==
    LET same == [models |-> models, active_term |-> active_term,
                 visible |-> visible, val |-> "None"]
    IN  IF e.id \notin DOMAIN models THEN same
        ELSE IF e.kind = "Data"
        THEN [same EXCEPT !.models[e.id].fed = @ \o e.data, !.val = "Update"]
        ELSE IF e.kind = "Error"
        THEN [same EXCEPT !.models[e.id].state = Failed(e.msg), !.val = "Update"]
        ELSE [same EXCEPT !.models[e.id].state = TerminatedState(e.code),
                          !.val = "Update"]

\* What poll_event does with an item of the merge (terminal.rs 430-449):
\* the view afterwards and the value returned.  A ? on a missing model
\* returns None before anything is written.
Fold(e) ==
    LET same == [models |-> models, active_term |-> active_term,
                 visible |-> visible, val |-> "None"]
    IN  IF e.id \notin DOMAIN models THEN same
        ELSE IF e.kind = "Data"
        THEN [same EXCEPT !.models[e.id].fed = @ \o e.data, !.val = "Update"]
        ELSE IF e.kind = "Error"
        THEN [same EXCEPT !.models[e.id].state = Failed(e.msg), !.val = "Update"]
        ELSE [same EXCEPT !.models[e.id].state = TerminatedState(e.code),
                          !.active_term = <<>>,
                          !.visible = FALSE,
                          !.val = "Update"]

\* poll_event (terminal.rs 402-453): select! over events.recv() and
\* registry.incoming.next(), polled in either order.  The branch that is
\* ready first is taken; a poll of the merge that answers Pending has still
\* polled the woken sub-streams.
PollEvent ==
    /\ ~crashed
    /\ \/ /\ events # <<>>
          /\ events' = Tail(events)
          /\ ret' = Ret("poll_event", Head(events)[1], "Update")
          /\ UNCHANGED <<sub, chan, proc, got, streams, readyQueue, crashed,
                         models, active_term, visible>>
       \/ \E r \in SelectAllPoll(PollState) :
            /\ sub' = r.st.sub
            /\ chan' = r.st.chan
            /\ proc' = r.st.proc
            /\ got' = r.st.got
            /\ streams' = r.st.streams
            /\ readyQueue' = r.st.queue
            /\ crashed' = (r.out.kind = "Panic")
            /\ IF r.out.kind = "Pending" /\ events # <<>>
               THEN /\ events' = Tail(events)
                    /\ ret' = Ret("poll_event", Head(events)[1], "Update")
                    /\ UNCHANGED <<models, active_term, visible>>
               ELSE IF ~IsItem(r.out)
               THEN /\ ret' = Ret("poll_event", 0, r.out.kind)
                    /\ UNCHANGED viewVars
               ELSE /\ models' = Fold(r.out).models
                    /\ active_term' = Fold(r.out).active_term
                    /\ visible' = Fold(r.out).visible
                    /\ ret' = Ret("poll_event", r.out.id, Fold(r.out).val)
                    /\ UNCHANGED events
    /\ UNCHANGED <<TERMINAL_ID_SEQ, tid, terminals, ptySize, written, worker,
                   readLog, orphans>>

\* ------------------------------------------------- worker thread and child
\* The k-th byte the child of slot s writes to its PTY: every child writes
\* bytes of its own, so that a payload tells which PTY it was read from.
ChildByte(s, k) == 100 * s + k
SlotOfByte(b) == b \div 100

\* A worker that uses try_send: a chunk read while the channel is full is
\* dropped.
WorkerReadLossy(s, n, res) ==
    /\ ~crashed
    /\ worker[s].pc = "read"
    /\ LET from == Len(readLog[s])
           bytes == [i \in 1..n |-> ChildByte(s, from + i)]
           item == IF res = "ok" THEN [ok |-> TRUE, data |-> bytes]
                   ELSE [ok |-> FALSE, data |-> <<>>]
       IN  IF res = "eof"
           THEN /\ worker' = [worker EXCEPT ![s].pc = "done"]
                /\ readyQueue' = Wake(readyQueue, s)
                /\ UNCHANGED <<readLog, chan>>
           ELSE /\ readLog' = [readLog EXCEPT
                                 ![s] = IF res = "ok" THEN @ \o bytes ELSE @]
                /\ worker' = [worker EXCEPT
                                ![s].pc = IF res = "ok" THEN "read" ELSE "done"]
                /\ IF Len(chan[s]) < ChannelCap
                   THEN /\ chan' = [chan EXCEPT ![s] = Append(@, item)]
                        /\ readyQueue' = Wake(readyQueue, s)
                   ELSE UNCHANGED <<chan, readyQueue>>
    /\ UNCHANGED <<TERMINAL_ID_SEQ, tid, terminals, ptySize, written, streams,
                   sub, proc, got, crashed, orphans>>

\* One pass of the worker's loop (lib.rs 225-238): reader.read answers EOF,
\* n bytes or an error; a chunk or an error is handed to blocking_send, which
\* returns at once when the channel has room and otherwise leaves the thread
\* waiting with the item in hand (WorkerSend).
WorkerRead(s, n, res) ==
    /\ ~crashed
    /\ worker[s].pc = "read"
    /\ LET from == Len(readLog[s])
           bytes == [i \in 1..n |-> ChildByte(s, from + i)]
           item == IF res = "ok" THEN [ok |-> TRUE, data |-> bytes]
                   ELSE [ok |-> FALSE, data |-> <<>>]
       IN  IF res = "eof"
           THEN /\ worker' = [worker EXCEPT ![s].pc = "done"]
                /\ readyQueue' = Wake(readyQueue, s)
                /\ UNCHANGED <<readLog, chan>>
           ELSE /\ readLog' = [readLog EXCEPT
                                 ![s] = IF res = "ok" THEN @ \o bytes ELSE @]
                /\ IF s \notin streams
                   THEN /\ worker' = [worker EXCEPT ![s].pc = "done"]
                        /\ UNCHANGED <<chan, readyQueue>>
                   ELSE IF Len(chan[s]) < ChannelCap
                   THEN /\ chan' = [chan EXCEPT ![s] = Append(@, item)]
                        /\ worker' = [worker EXCEPT
                                        ![s].pc = IF res = "ok" THEN "read"
                                                  ELSE "done"]
                        /\ readyQueue' = Wake(readyQueue, s)
                   ELSE /\ worker' = [worker EXCEPT
                                        ![s] = [pc |-> "send", held |-> <<item>>]]
                        /\ UNCHANGED <<chan, readyQueue>>
    /\ UNCHANGED <<TERMINAL_ID_SEQ, tid, terminals, ptySize, written, streams,
                   sub, proc, got, crashed, orphans>>

\* A worker that goes back to reading after it has sent the error it held.
WorkerSendGoesOn(s) ==
    /\ ~crashed
    /\ worker[s].pc = "send"
    /\ LET item == worker[s].held[1]
       IN  IF s \notin streams
           THEN /\ worker' = [worker EXCEPT ![s] = [pc |-> "done", held |-> <<>>]]
                /\ UNCHANGED <<chan, readyQueue>>
           ELSE /\ Len(chan[s]) < ChannelCap
                /\ chan' = [chan EXCEPT ![s] = Append(@, item)]
                /\ worker' = [worker EXCEPT ![s] = [pc |-> "read", held |-> <<>>]]
                /\ readyQueue' = Wake(readyQueue, s)
    /\ UNCHANGED <<TERMINAL_ID_SEQ, tid, terminals, ptySize, written, streams,
                   sub, readLog, proc, got, crashed, orphans>>

\* blocking_send returns in a worker that waited on a full channel
\* (lib.rs 229, 234): the channel has room again, or the receiver is gone.
WorkerSend(s) ==
    /\ ~crashed
    /\ worker[s].pc = "send"
    /\ LET item == worker[s].held[1]
       IN  IF s \notin streams
           THEN /\ worker' = [worker EXCEPT ![s] = [pc |-> "done", held |-> <<>>]]
                /\ UNCHANGED <<chan, readyQueue>>
           ELSE /\ Len(chan[s]) < ChannelCap
                /\ chan' = [chan EXCEPT ![s] = Append(@, item)]
                /\ worker' = [worker EXCEPT
                                ![s] = [pc |-> IF item.ok THEN "read" ELSE "done",
                                        held |-> <<>>]]
                /\ readyQueue' = Wake(readyQueue, s)
    /\ UNCHANGED <<TERMINAL_ID_SEQ, tid, terminals, ptySize, written, streams,
                   sub, readLog, proc, got, crashed, orphans>>

\* The worker thread runs: it resumes a send that waited, or makes one more
\* pass of its loop.
WorkerStep(s, n, res) ==
    IF worker[s].pc = "send" THEN WorkerSend(s) ELSE WorkerRead(s, n, res)

\* The child exits (on its own, or after the signal kill sent).
ProcExit(s) ==
    /\ ~crashed
    /\ proc[s] \in {"running", "dying"}
    /\ proc' = [proc EXCEPT ![s] = "exited"]
    /\ UNCHANGED <<TERMINAL_ID_SEQ, tid, terminals, ptySize, written, streams,
                   readyQueue, sub, chan, worker, readLog, got, crashed, orphans>>

\* ----------------------------------------------------------- specifications
\* ids a caller may pass: every id issued so far, and the next one
CallIds == Range(tid) \cup {TERMINAL_ID_SEQ}
Results == {"Ok", "TerminalNotFound", "IoError", "PtyError"}
ReadResults == {"eof", "ok", "err"}
\* ret after a step that made no registry call
NoCall == Ret("none", 0, "")

\* Spec: the merge, the lifecycle tasks and the read bridges of up to
\* MaxSpawn sessions whose children write up to MaxBytes bytes in all.
\* ret records spawn_pty and the polls.
Next ==
    \/ /\ Len(tid) < MaxSpawn
       /\ SpawnPty(DefaultSize)
       /\ UNCHANGED viewVars
    \/ \E id \in CallIds, res \in Results : Terminate(id, res) /\ UNCHANGED <<ret, viewVars>>
    \/ PollIncoming
    \/ \E s \in Slots, n \in 1..MaxChunk, res \in ReadResults :
            /\ res = "ok" => SumLen(readLog) + n <= MaxBytes
            /\ WorkerStep(s, n, res)
            /\ UNCHANGED <<ret, viewVars>>
    \/ \E s \in Slots : ProcExit(s) /\ UNCHANGED <<ret, viewVars>>

Spec == Init /\ [][Next]_vars

\* FairSpec: Spec with the scheduling the liveness claims assume.  The
\* consumer keeps polling the merge, a worker waiting in blocking_send
\* resumes, and a child that kill has signalled exits.  ret records
\* terminate as well.
FairNext ==
    \/ /\ Len(tid) < MaxSpawn
       /\ SpawnPty(DefaultSize)
       /\ UNCHANGED viewVars
    \/ \E id \in CallIds, res \in Results :
            /\ Terminate(id, res)
            /\ ret' = Ret("terminate", id, res)
            /\ UNCHANGED viewVars
    \/ PollIncoming
    \/ \E s \in Slots, n \in 1..MaxChunk, res \in ReadResults :
            /\ res = "ok" => SumLen(readLog) + n <= MaxBytes
            /\ WorkerStep(s, n, res)
            /\ UNCHANGED <<ret, viewVars>>
    \/ \E s \in Slots : ProcExit(s) /\ UNCHANGED <<ret, viewVars>>

SendResumes(s) == s \in Slots /\ WorkerSend(s) /\ UNCHANGED <<ret, viewVars>>
DyingExits(s) == s \in Slots /\ proc[s] = "dying" /\ ProcExit(s) /\ UNCHANGED <<ret, viewVars>>

FairSpec ==
    /\ Init
    /\ [][FairNext]_vars
    /\ WF_vars(PollIncoming)
    /\ \A s \in 1..MaxSpawn : WF_vars(SendResumes(s))
    /\ \A s \in 1..MaxSpawn : WF_vars(DyingExits(s))

\* OpsSpec: the registry's calls, every answer recorded in ret (a step that
\* makes no call clears it), on sessions whose children stay silent (the
\* workers wait in read).
OpsNext ==
    \/ /\ Len(tid) < MaxSpawn
       /\ \E size \in Sizes : SpawnPty(size)
       /\ UNCHANGED viewVars
    \/ \E id \in CallIds, res \in Results :
            /\ Terminate(id, res)
            /\ ret' = Ret("terminate", id, res)
            /\ UNCHANGED viewVars
    \/ \E id \in CallIds, ok \in BOOLEAN, res \in Results :
            /\ ok => SumSeq(written) < MaxWrites
            /\ Write(id, ok, res)
            /\ ret' = Ret("write", id, res)
            /\ UNCHANGED viewVars
    \/ \E id \in CallIds, size \in Sizes, ok \in BOOLEAN, res \in Results :
            /\ Resize(id, size, ok, res)
            /\ ret' = Ret("resize", id, res)
            /\ UNCHANGED viewVars
    \/ PollIncoming
    \/ \E s \in Slots : ProcExit(s) /\ ret' = NoCall /\ UNCHANGED viewVars

OpsSpec == Init /\ [][OpsNext]_vars

\* BridgeSpec: one session whose child writes up to BridgeBytes bytes, enough
\* to fill the channel while the consumer does not poll.
BridgeNext ==
    \/ /\ tid = <<>>
       /\ SpawnPty(DefaultSize)
       /\ UNCHANGED viewVars
    \/ \E id \in CallIds, res \in Results : Terminate(id, res) /\ UNCHANGED <<ret, viewVars>>
    \/ PollIncoming
    \/ \E s \in Slots, n \in 1..MaxChunk, res \in ReadResults :
            /\ res = "ok" => SumLen(readLog) + n <= BridgeBytes
            /\ WorkerStep(s, n, res)
            /\ UNCHANGED <<ret, viewVars>>
    \/ \E s \in Slots : ProcExit(s) /\ UNCHANGED <<ret, viewVars>>

BridgeSpec == Init /\ [][BridgeNext]_vars

\* ReaderSpec: the read bridge of one session, from reader_to_stream to the
\* end of its stream or the drop of its consumer, the child writing up to
\* BridgeBytes bytes.  A dropped registry is neither polled nor called.  The
\* bridge sees the child only through what reader.read answers, which is any
\* of ReadResults at every read.
ReaderNext ==
    \/ /\ tid = <<>>
       /\ SpawnPty(DefaultSize)
       /\ UNCHANGED viewVars
    \/ ~RegistryDropped /\ PollIncoming
    \/ DropRegistry /\ UNCHANGED <<ret, viewVars>>
    \/ \E s \in Slots, n \in 1..MaxChunk, res \in ReadResults :
            /\ res = "ok" => SumLen(readLog) + n <= BridgeBytes
            /\ WorkerStep(s, n, res)
            /\ UNCHANGED <<ret, viewVars>>

ReaderSpec == Init /\ [][ReaderNext]_vars

\* SpawnSpec: spawn_pty succeeding or failing at any of its steps, next to
\* the calls and polls of the sessions that exist; every answer is recorded
\* in ret.
SpawnNext ==
    \/ /\ Len(tid) < MaxSpawn
       /\ \E size \in Sizes : SpawnPty(size)
       /\ UNCHANGED viewVars
    \/ \E step \in SpawnSteps :
            /\ step \in {"try_clone_reader", "take_writer"} => orphans < MaxOrphans
            /\ SpawnPtyFails(step)
            /\ UNCHANGED viewVars
    \/ \E id \in CallIds, res \in Results :
            /\ Terminate(id, res)
            /\ ret' = Ret("terminate", id, res)
            /\ UNCHANGED viewVars
    \/ PollIncoming
    \/ \E s \in Slots : ProcExit(s) /\ ret' = NoCall /\ UNCHANGED viewVars

SpawnSpec == Init /\ [][SpawnNext]_vars

\* IdSpec: up to MaxSessions sessions of a registry created at any value of
\* the process-wide id counter; ret records spawn_pty and the polls.
IdNext ==
    \/ /\ Len(tid) < MaxSessions
       /\ \E size \in Sizes : SpawnPty(size)
       /\ UNCHANGED viewVars
    \/ \E id \in CallIds, res \in Results :
            Terminate(id, res) /\ UNCHANGED <<ret, viewVars>>
    \/ PollIncoming
    \/ \E s \in Slots : ProcExit(s) /\ UNCHANGED <<ret, viewVars>>

IdInit == InitAt(IdStarts)

IdSpec == IdInit /\ [][IdNext]_vars

\* TagSpec: up to MaxSessions sessions running side by side, whose children
\* write up to TagBytes bytes in all.
TagNext ==
    \/ /\ Len(tid) < MaxSessions
       /\ SpawnPty(DefaultSize)
       /\ UNCHANGED viewVars
    \/ PollIncoming
    \/ \E s \in Slots, n \in 1..MaxChunk, res \in ReadResults :
            /\ res = "ok" => SumLen(readLog) + n <= TagBytes
            /\ WorkerStep(s, n, res)
            /\ UNCHANGED <<ret, viewVars>>
    \/ \E s \in Slots : ProcExit(s) /\ UNCHANGED <<ret, viewVars>>

TagSpec == Init /\ [][TagNext]_vars

\* ViewSpec: a TerminalView and its registry, with up to MaxShells shells
\* whose children write up to ViewBytes bytes in all.  ret records the calls
\* made on the view.  A spawn_pty that fails does so at openpty.
ViewSteps == {"none", "openpty"}
ViewNext ==
    \/ \E step \in ViewSteps :
            /\ step = "none" => Len(tid) < MaxShells
            /\ SpawnShell(DefaultSize, step)
    \/ \E step \in ViewSteps :
            /\ (active_term = <<>> /\ step = "none") => Len(tid) < MaxShells
            /\ (active_term # <<>> \/ step = "none") => Len(events) < MaxEvents
            /\ ToggleTerminal(step)
    \/ \E id \in CallIds : CloseTerm(id)
    \/ CloseActiveTerminal
    \/ PollEvent
    \/ \E s \in Slots, n \in 1..MaxChunk, res \in ReadResults :
            /\ res = "ok" => SumLen(readLog) + n <= ViewBytes
            /\ WorkerStep(s, n, res)
            /\ UNCHANGED <<ret, viewVars>>
    \/ \E s \in Slots : ProcExit(s) /\ UNCHANGED <<ret, viewVars>>

ViewSpec == Init /\ [][ViewNext]_vars

\* ------------------------------------------------------------------ claims
Idx(s) == 1..Len(got[s])
\* an event of the lifecycle task: Terminated, or the Error of a failed
\* try_wait or kill
IsLifeEvent(e) ==
    e.kind = "Terminated" \/ (e.kind = "Error" /\ e.msg \in {"wait", "kill"})
IsBridgeEvent(e) ==
    e.kind = "Data" \/ (e.kind = "Error" /\ e.msg = "read")
HasTerminal(s) == \E i \in Idx(s) : IsLifeEvent(got[s][i])
HasTerminated(s) == \E i \in Idx(s) : got[s][i].kind = "Terminated"
HasLifeError(s) ==
    \E i \in Idx(s) : got[s][i].kind = "Error" /\ got[s][i].msg \in {"wait", "kill"}
LifeEventCount(s) == Cardinality({i \in Idx(s) : IsLifeEvent(got[s][i])})
\* Terminated events delivered under id, over every sub-stream
TerminatedCount(id) ==
    Cardinality({p \in UNION {{<<s, i>> : i \in Idx(s)} : s \in Slots} :
                    /\ got[p[1]][p[2]].kind = "Terminated"
                    /\ got[p[1]][p[2]].id = id})

\* C1: a session on which terminate(id) is called right after spawn_pty,
\* before the merge has been polled, eventually has its terminal event
\* delivered (or the poll panics).
C1_TerminalAfterImmediateTerminate ==
    \A s \in 1..MaxSpawn :
        (s \in Slots /\ ret = Ret("terminate", tid[s], "Ok")
                     /\ sub[s].life = "unstarted")
            ~> (s \in Slots /\ (HasTerminal(s) \/ crashed))

\* C2: if terminate is never called, a session whose child has exited
\* eventually has its terminal event delivered (or the poll panics).
C2_ExitIsEventuallyReported ==
    \A s \in 1..MaxSpawn :
        [](ret.op # "terminate")
            => ((s \in Slots /\ proc[s] = "exited")
                    ~> (s \in Slots /\ (HasTerminal(s) \/ crashed)))

\* C3: a terminate(id) that reaches a waiting lifecycle task whose child is
\* running eventually leads to the terminal event of id (or the poll panics).
C3_TerminateIsEventuallyReported ==
    \A s \in 1..MaxSpawn :
        (s \in Slots /\ ret = Ret("terminate", tid[s], "Ok")
                     /\ sub[s].life = "waiting" /\ sub[s].notified
                     /\ proc[s] = "running")
            ~> (s \in Slots /\ (HasTerminal(s) \/ crashed))

\* C4: every terminate(id) on a session in the table answers Ok, and at most
\* one Terminated is ever delivered under an id.
C4_TerminateIdempotent ==
    /\ (ret.op = "terminate" /\ ret.id \in DOMAIN terminals) => ret.val = "Ok"
    /\ \A id \in Range(tid) : TerminatedCount(id) <= 1

\* C4 witness: terminate answers Ok on a session whose child an earlier
\* terminate has already had killed.
C4_Witness ==
    /\ ret.op = "terminate" /\ ret.val = "Ok"
    /\ ret.id \in DOMAIN terminals
    /\ proc[terminals[ret.id]] = "dying"

\* C5: a write to a session whose Terminated has been delivered answers
\* TerminalNotFound.
C5_WriteAfterTerminatedNotFound ==
    (ret.op = "write" /\ TerminatedCount(ret.id) >= 1)
        => ret.val = "TerminalNotFound"

\* C6: terminate, write and resize with an id outside the table answer
\* TerminalNotFound and change nothing but the answer.
C6_UnknownIdNoEffect ==
    [][(ret'.op \in {"terminate", "write", "resize"}
            /\ ret'.id \notin DOMAIN terminals)
        => /\ ret'.val = "TerminalNotFound"
           /\ UNCHANGED <<TERMINAL_ID_SEQ, tid, terminals, ptySize, written,
                          streams, readyQueue, sub, chan, worker, readLog,
                          proc, got, crashed, orphans, viewVars>>]_vars

\* C6 witness: a call with an unknown id was answered while a notified
\* session with a resized PTY is live.
C6_Witness ==
    /\ ret.op \in {"terminate", "write", "resize"}
    /\ ret.id \notin DOMAIN terminals
    /\ \E s \in Slots : sub[s].life = "waiting" /\ ptySize[s] # DefaultSize

\* C7 as claimed: Terminated is the last event delivered for its session.
C7_TerminatedIsLast ==
    \A s \in Slots : \A i \in Idx(s) :
        got[s][i].kind = "Terminated" => i = Len(got[s])

\* C7 as amended: after Terminated only events of the read bridge (Data, the
\* read Error) are delivered for the session; never a second Terminated nor
\* an Error of the lifecycle task.
C7_TerminatedIsLastLifecycleEvent ==
    \A s \in Slots : \A i \in Idx(s), j \in Idx(s) :
        (got[s][i].kind = "Terminated" /\ i < j) => IsBridgeEvent(got[s][j])

\* C7 witness: a Data event delivered after the session's Terminated.
C7_Witness ==
    \E s \in Slots : \E i \in Idx(s), j \in Idx(s) :
        got[s][i].kind = "Terminated" /\ i < j /\ got[s][j].kind = "Data"

\* bytes carried by the Data events of a sequence of events
RECURSIVE DataBytes(_)
DataBytes(es) ==
    IF es = <<>> THEN <<>>
    ELSE (IF Head(es).kind = "Data" THEN Head(es).data ELSE <<>>)
            \o DataBytes(Tail(es))
\* bytes carried by the chunks of a sequence of channel items
RECURSIVE ChunkBytes(_)
ChunkBytes(items) ==
    IF items = <<>> THEN <<>>
    ELSE (IF Head(items).ok THEN Head(items).data ELSE <<>>)
            \o ChunkBytes(Tail(items))
IsPrefix(p, q) == Len(p) <= Len(q) /\ SubSeq(q, 1, Len(p)) = p

\* C8: the Data events delivered for a session, concatenated in delivery
\* order, are a prefix of the bytes its worker read; every byte read is
\* delivered, in the channel or in the hand of the worker blocked in send, in
\* read order; the channel never holds more than ChannelCap items.
C8_DataIsPrefixOfBytesRead ==
    \A s \in Slots :
        /\ IsPrefix(DataBytes(got[s]), readLog[s])
        /\ readLog[s] = DataBytes(got[s]) \o ChunkBytes(chan[s])
                            \o ChunkBytes(worker[s].held)
        /\ Len(chan[s]) <= ChannelCap

\* C8 witness: the worker waits in blocking_send with a chunk in hand, the
\* channel full.
C8_Witness ==
    \E s \in Slots :
        /\ worker[s].pc = "send"
        /\ Len(chan[s]) = ChannelCap
        /\ ChunkBytes(worker[s].held) # <<>>

\* C9: a poll of the merge answers None only when the table holds no session.
C9_NoneOnlyWhenTableEmpty ==
    (ret.op = "poll" /\ ret.val = "None") => DOMAIN terminals = {}

\* C10: a session whose lifecycle task reported a failed try_wait or kill has
\* had a Terminated delivered by the time its sub-stream has left the merge.
C10_FailureResolvedToTerminated ==
    \A s \in Slots :
        (HasLifeError(s) /\ s \notin streams) => HasTerminated(s)

\* C11: a spawn_pty that fails leaves the registry as it was (table, merge,
\* workers, sessions, id counter) and leaves no child behind.
C11_FailedSpawnLeavesNothing ==
    [][(ret'.op = "spawn_pty" /\ ret'.val # "Ok")
        => UNCHANGED <<TERMINAL_ID_SEQ, tid, terminals, ptySize, written,
                       streams, readyQueue, sub, chan, worker, readLog,
                       proc, got, crashed, orphans>>]_vars

\* C12: every id spawn_pty returns is greater, as a u32, than every id an
\* earlier spawn_pty returned, so that no id is issued twice.
C12_IdsStrictlyIncrease ==
    \A i \in Slots, j \in Slots : i < j => U32Lt(tid[i], tid[j])

\* C13: an id that spawn_pty issued and that is absent from the table has had
\* its terminal event delivered; that is, the entry of a session whose
\* terminal event is still to come is in the table, under its id.
C13_EntryKeptUntilTerminalEvent ==
    \A s \in Slots :
        /\ tid[s] \notin DOMAIN terminals => HasTerminal(s)
        /\ ~HasTerminal(s) => (tid[s] \in DOMAIN terminals /\ terminals[tid[s]] = s)

\* C13 witness: terminate has had the child of a session killed, its
\* terminal event is still to come, and its entry is in the table.
C13_Witness ==
    \E s \in Slots :
        /\ proc[s] = "dying"
        /\ ~HasTerminal(s)
        /\ tid[s] \in DOMAIN terminals

\* C14: every event the merge delivers carries the id of the session whose
\* sub-stream produced it, a Data payload holds only bytes read from that
\* session's PTY, and sessions running side by side have different ids.
C14_EventsCarryOwnId ==
    /\ \A s \in Slots : \A i \in Idx(s) :
            /\ got[s][i].id = tid[s]
            /\ \A k \in 1..Len(got[s][i].data) :
                    SlotOfByte(got[s][i].data[k]) = terminals[got[s][i].id]
    /\ \A s \in Slots, s2 \in Slots : tid[s] = tid[s2] => s = s2

\* C14 witness: two sessions have each had a Data event delivered, the last
\* poll delivering one of the first session.
C14_Witness ==
    /\ Len(tid) >= 2
    /\ got[2] # <<>> /\ got[2][1].kind = "Data"
    /\ \E i \in Idx(1) : got[1][i].kind = "Data"
    /\ ret = Ret("poll", tid[1], "Data")

\* a model in one of the states the spec calls terminal

\* PairSpec: a view with up to MaxSessions shells whose children exit, the
\* view toggled and polled; the children write nothing.
PairNext ==
    \/ /\ Len(tid) < MaxSessions
       /\ SpawnShell(DefaultSize, "none")
    \/ /\ active_term # <<>>
       /\ Len(events) < MaxEvents
       /\ ToggleTerminal("none")
    \/ PollEvent
    \/ \E s \in Slots : ProcExit(s) /\ UNCHANGED <<ret, viewVars>>

PairSpec == Init /\ [][PairNext]_vars

\* ------------------------------------------------------- claims on the view
IsFinal(m) == m.state.kind \in {"Failed", "Terminated"}
\* the step delivers an event of sub-stream s on the merge
Delivers(s) == s \in Slots /\ Len(got'[s]) = Len(got[s]) + 1
Delivered(s) == got'[s][Len(got'[s])]

\* C15: once the status of a model is Failed or Terminated, no step changes
\* the status of that model.
C15_FinalStatusNeverChanges ==
    [][\A id \in DOMAIN models :
            (IsFinal(models[id]) /\ id \in DOMAIN models')
                => models'[id].state = models[id].state]_vars

\* C16: after close_term has closed the session that was active (as
\* close_active_terminal does), the selection does not name that session.
C16_CloseClearsSelection ==
    (ret.op = "close_term" /\ ret.val = "Ok") => active_term # <<ret.id>>

\* C17: the poll_event that takes (id, Terminated(code)) off the merge for a
\* session with a model leaves the model Terminated(code) and the selection
\* not on id, and returns Update(id).
C17_TerminatedIsFolded ==
    [][\A s \in Slots :
            (/\ Delivers(s)
             /\ Delivered(s).kind = "Terminated"
             /\ Delivered(s).id \in DOMAIN models)
            => /\ Delivered(s).id \in DOMAIN models'
               /\ models'[Delivered(s).id].state
                        = TerminatedState(Delivered(s).code)
               /\ active_term' # <<Delivered(s).id>>
               /\ ret' = Ret("poll_event", Delivered(s).id, "Update")]_vars

\* C17 witness: poll_event has just returned Update(id) for the Terminated of
\* the session that was selected and visible; its model is Terminated and
\* nothing is selected.
C17_Witness ==
    \E s \in Slots :
        /\ got[s] # <<>>
        /\ got[s][Len(got[s])].kind = "Terminated"
        /\ ret = Ret("poll_event", tid[s], "Update")
        /\ tid[s] \in DOMAIN models
        /\ models[tid[s]].state = TerminatedState(got[s][Len(got[s])].code)
        /\ active_term = <<>>
        /\ events = <<>>

\* C19: no step feeds bytes to the parser of a model whose status is Failed
\* or Terminated.
C19_NoAdvanceOnFinalModel ==
    [][\A id \in DOMAIN models :
            (IsFinal(models[id]) /\ id \in DOMAIN models')
                => models'[id].fed = models[id].fed]_vars

\* C18: no exit status makes a poll panic: every poll of the merge returns.
C18_EveryExitCodeBecomesTerminated ==
    ~crashed /\ ret.val # "Panic"

\* C20: once the Terminated of a session has been delivered, its sub-stream
\* stays in the merge while the bridge has not ended, it is queued for the
\* next poll while chunks are buffered, and no step drops or reorders a byte
\* that was delivered or buffered.
C20_BufferedDataSurvivesTerminated ==
    /\ [](\A s \in Slots :
            HasTerminated(s) =>
                /\ (chan[s] # <<>> \/ worker[s].pc # "done") => s \in streams
                /\ (chan[s] # <<>> /\ ~crashed) => s \in Range(readyQueue))
    /\ [][\A s \in Slots :
            HasTerminated(s) =>
                /\ IsPrefix(DataBytes(got[s]), DataBytes(got'[s]))
                /\ IsPrefix(DataBytes(got[s]) \o ChunkBytes(chan[s]),
                            DataBytes(got'[s]) \o ChunkBytes(chan'[s]))]_vars

\* C20 witness: two chunks that were read before the Terminated of their
\* session was delivered have been delivered after it, in the order read.
C20_Witness ==
    \E s \in Slots : \E i \in Idx(s) :
        /\ got[s][i].kind = "Terminated"
        /\ i + 2 <= Len(got[s])
        /\ got[s][i + 1].kind = "Data"
        /\ got[s][i + 2].kind = "Data"
        /\ got[s][i + 1].data[1] < got[s][i + 2].data[1]
        /\ Len(readLog[s]) = Len(DataBytes(got[s]))

\* the items a bridge has produced so far, in order, TRUE for a chunk and FALSE
\* for an error: those delivered on the merge, those in the channel, and the
\* one in the hand of a worker waiting in blocking_send
RECURSIVE BridgeOks(_)
BridgeOks(es) ==
    IF es = <<>> THEN <<>>
    ELSE (IF IsBridgeEvent(Head(es)) THEN <<Head(es).kind = "Data">> ELSE <<>>)
            \o BridgeOks(Tail(es))
Produced(s) ==
    BridgeOks(got[s]) \o [i \in 1..Len(chan[s]) |-> chan[s][i].ok]
        \o [i \in 1..Len(worker[s].held) |-> worker[s].held[i].ok]
ErrorIsLast(q) == \A i \in 1..Len(q) : ~q[i] => i = Len(q)
WorkerReads(s, res) == \E n \in 1..MaxChunk : WorkerRead(s, n, res)

\* C21: on every step and for every session: an error item is the last item
\* its bridge produces; while the consumer is there no item is lost or
\* reordered on its way to the merge; a zero-length read ends the worker and
\* adds no item; a failed read adds exactly one error item and the worker ends
\* once it is sent; a worker that has ended produces nothing more; the stream
\* ends only when the worker has ended and the channel is drained; a worker
\* that runs after its consumer is gone ends on that step, and nothing panics.
C21_BridgeEndsCleanly ==
    [][\A s \in Slots :
        /\ ErrorIsLast(Produced(s)')
        /\ s \in streams' => IsPrefix(Produced(s), Produced(s)')
        /\ WorkerReads(s, "eof") =>
                Produced(s)' = Produced(s) /\ worker'[s].pc = "done"
        /\ (WorkerReads(s, "err") /\ s \in streams) =>
                /\ Produced(s)' = Append(Produced(s), FALSE)
                /\ worker'[s].pc \in {"send", "done"}
        /\ worker[s].pc = "done" =>
                worker'[s] = worker[s] /\ Len(chan'[s]) <= Len(chan[s])
        /\ (sub'[s].leftDone /\ ~sub[s].leftDone) =>
                worker[s].pc = "done" /\ chan'[s] = <<>>
        /\ (s \notin streams /\ worker'[s] # worker[s]) =>
                worker'[s].pc = "done" /\ chan'[s] = chan[s] /\ ~crashed'
      ]_vars

\* C21 witness: a bridge whose stream has ended after chunks and then one
\* error item were delivered, the error having waited in the hand of the
\* worker for room in the channel.
C21_Witness ==
    \E s \in Slots :
        /\ sub[s].leftDone
        /\ Len(BridgeOks(got[s])) > ChannelCap
        /\ ~BridgeOks(got[s])[Len(BridgeOks(got[s]))]

\* the edges of the status machine: Initializing -> Normal,
\* Normal -> Failed(reason), Normal -> Terminated(code)
StatusEdges ==
    {<<"Initializing", "Normal">>, <<"Normal", "Failed">>,
     <<"Normal", "Terminated">>}

\* C22: a model enters the table in Initializing, and every step that changes
\* the status of a model follows one of the edges Initializing -> Normal,
\* Normal -> Failed, Normal -> Terminated.
C22_StatusFollowsEdges ==
    [][\A id \in DOMAIN models' :
            IF id \notin DOMAIN models
            THEN models'[id].state = Initializing
            ELSE models'[id].state # models[id].state
                    => <<models[id].state.kind, models'[id].state.kind>>
                            \in StatusEdges]_vars

\* C23: the poll_event that takes (id, Error(reason)) off the merge for a
\* session with a model leaves that model in the table with status
\* Failed(reason), removes no model, and leaves the active selection, the
\* visible flag and the registry table as they were.
C23_ErrorIsFoldedToFailed ==
    [][\A s \in Slots :
            (/\ Delivers(s)
             /\ Delivered(s).kind = "Error"
             /\ Delivered(s).id \in DOMAIN models)
            => /\ DOMAIN models' = DOMAIN models
               /\ models'[Delivered(s).id].state = Failed(Delivered(s).msg)
               /\ active_term' = active_term
               /\ visible' = visible
               /\ terminals' = terminals]_vars

\* C23 witness: poll_event has just folded the Error of the session that is
\* selected; its model is Failed with the reason of the event, the session is
\* still selected and still in the registry table.
C23_Witness ==
    \E s \in Slots :
        /\ got[s] # <<>>
        /\ got[s][Len(got[s])].kind = "Error"
        /\ ret = Ret("poll_event", tid[s], "Update")
        /\ tid[s] \in DOMAIN models
        /\ models[tid[s]].state = Failed(got[s][Len(got[s])].msg)
        /\ active_term = <<tid[s]>>
        /\ tid[s] \in DOMAIN terminals
        /\ events = <<>>

\* C24: the poll_event that takes (id, Terminated(code)) off the merge while
\* the active selection names another session leaves the active selection
\* and the visible flag as they were.
C24_OtherTerminationKeepsSelection ==
    [][\A s \in Slots :
            (/\ Delivers(s)
             /\ Delivered(s).kind = "Terminated"
             /\ active_term # <<>>
             /\ active_term # <<Delivered(s).id>>)
            => active_term' = active_term /\ visible' = visible]_vars

\* the step is a close_term(id) that found a model for id
Closes(id) == ret' = Ret("close_term", id, "Ok") /\ id \in DOMAIN models

\* C25: a close_term that finds a model neither Failed nor Terminated signals
\* the cancellation notifier of its session: a lifecycle task parked on the
\* notifier has been notified when the call returns.  A close_term that finds
\* a model Failed or Terminated signals nothing.
C25_CloseSignalsTermination ==
    [][\A id \in DOMAIN terminals :
            Closes(id) =>
                IF IsFinal(models[id])
                THEN sub' = sub
                ELSE sub[terminals[id]].life = "waiting"
                        => sub'[terminals[id]].notified]_vars


====
